---------------------------- MODULE Spec2Model ----------------------------
(***************************************************************************)
(* Interactive volcano plot (src/app.js): the Benjamini-Hochberg engine,   *)
(* the classifier, the synthetic data generator and the interaction state  *)
(* (pin / box select / clear / search / zoom / regenerate) driven by the   *)
(* DOM event handlers.                                                     *)
(*                                                                         *)
(* Numbers.  The program computes in IEEE doubles; the model computes in   *)
(* exact integers on fixed grids:                                          *)
(*   - a p-value is a whole number of millionths (PUnit = 1.0);            *)
(*   - an FDR value is a whole number of 1/(PUnit*FdrDen), FdrDen being    *)
(*     the least common multiple of every rank k that can divide, so that  *)
(*     p*n/k is exact;                                                     *)
(*   - a plot coordinate (log2FC, negLog10P, scale domain) is a whole      *)
(*     number of 1/400 (CUnit = 1.0), data values being multiples of 1/20. *)
(***************************************************************************)
EXTENDS Integers, Sequences, FiniteSets, TLC

------------------------------------------------------------------------------
(* Bounds of the model *)

\* the model's dataset size (the program's N_POINTS is 1200)
N_POINTS == 3
\* the longest p-value sequence handed to benjaminiHochberg on its own
MaxLen == 5
\* the number of draws followed from one seed of createRng on its own
MaxDraws == 4
\* the number of times the pointer enters a point while the tooltip is followed
MaxHovers == 3

------------------------------------------------------------------------------
(* Arithmetic helpers *)

Min(a, b) == IF a <= b THEN a ELSE b
Max(a, b) == IF a >= b THEN a ELSE b
Abs(a) == IF a < 0 THEN -a ELSE a

RECURSIVE Gcd(_, _)
Gcd(a, b) == IF b = 0 THEN a ELSE Gcd(b, a % b)

RECURSIVE LcmUpTo(_)
LcmUpTo(n) == IF n <= 1 THEN 1 ELSE LET l == LcmUpTo(n - 1) IN (l * n) \div Gcd(l, n)

\* 1.0 as a p-value
PUnit == 10^6
\* the common denominator of the ranks
FdrDen == LcmUpTo(Max(N_POINTS, MaxLen))
\* 1.0 as an FDR value
FdrOne == PUnit * FdrDen
\* 1.0 as a plot coordinate
CUnit == 20 * 20

------------------------------------------------------------------------------
(* Benjamini-Hochberg FDR: src/app.js 21-30 *)

\* 1-based position of input index i after the stable ascending sort by p
\* (Array.prototype.sort is stable: equal p-values keep their input order)
SortRank(pvals, i) ==
    1 + Cardinality({j \in 1..Len(pvals) :
                        pvals[j] < pvals[i] \/ (pvals[j] = pvals[i] /\ j < i)})

\* q = p * n / (k + 1), clamped by Math.min(1, q); no backward min-sweep
benjaminiHochberg(pvals) ==
    LET n == Len(pvals)
    IN  [i \in 1..n |->
            LET k == SortRank(pvals, i)
                q == pvals[i] * n * (FdrDen \div k)
            IN  Min(FdrOne, q)]

------------------------------------------------------------------------------
(* Classification: src/app.js 88-92 *)

\* thresholds: fcThreshold in plot coordinates, fdrThreshold in p-value units
\* getCategory without the fdr tests
getCategoryIgnoresFdr(d, fcThreshold, fdrThreshold) ==
    IF d.log2FC >= fcThreshold THEN "sig_up"
    ELSE IF d.log2FC <= -fcThreshold THEN "sig_down"
    ELSE "not_sig"

\* getCategory with the two tests in the other order
getCategoryDownFirst(d, fcThreshold, fdrThreshold) ==
    IF d.fdr <= fdrThreshold * FdrDen /\ d.log2FC <= -fcThreshold THEN "sig_down"
    ELSE IF d.fdr <= fdrThreshold * FdrDen /\ d.log2FC >= fcThreshold THEN "sig_up"
    ELSE "not_sig"

getCategory(d, fcThreshold, fdrThreshold) ==
    IF d.fdr <= fdrThreshold * FdrDen /\ d.log2FC >= fcThreshold THEN "sig_up"
    ELSE IF d.fdr <= fdrThreshold * FdrDen /\ d.log2FC <= -fcThreshold THEN "sig_down"
    ELSE "not_sig"

------------------------------------------------------------------------------
(* Seeded RNG (LCG): src/app.js 33-39 *)

\* The generator state s is an unsigned 32-bit number, kept as <<high 16 bits,
\* low 16 bits>> so that every intermediate product fits the checker's integers.
Half == 2^16

ToState(seed) == <<(seed \div Half) % Half, seed % Half>>

\* s = (s * 1664525 + 1013904223) >>> 0, with 1664525 = 25 * 2^16 + 26125 and
\* 1013904223 = 15470 * 2^16 + 62303
RngStep(s) ==
    LET lowProd == 26125 * s[2] + 62303
        high    == 25 * s[2] + 26125 * s[1] + 15470 + (lowProd \div Half)
    IN  <<high % Half, lowProd % Half>>

\* floor(m * (s / 0xffffffff)) for 0 <= m <= 120: the value the draw
\* s / 0xffffffff takes on a grid of m steps.  With m*s = q * 2^32 + r,
\* m*s = q * (2^32 - 1) + (q + r), and q + r reaches 2^32 - 1 at most once.
RngFloor(s, m) ==
    LET top   == s[1] * m + ((s[2] * m) \div Half)
        low   == (s[2] * m) % Half
        q     == top \div Half
        carry == IF top % Half = Half - 1 /\ low >= Half - 1 - q THEN 1 ELSE 0
    IN  q + carry

------------------------------------------------------------------------------
(* Synthetic data: src/app.js 42-85 *)

\* the first gene symbols of the program's list, as sequences of characters
GENE_SYMBOLS ==
    << <<"T", "P", "5", "3">>, <<"B", "R", "C", "A", "1">>,
       <<"E", "G", "F", "R">>, <<"M", "Y", "C">> >>

Digit(n) == <<"0", "1", "2", "3", "4", "5", "6", "7", "8", "9">>[n + 1]

\* the decimal digits of n >= 0, as the template literal prints them
RECURSIVE Decimal(_)
Decimal(n) == IF n < 10 THEN <<Digit(n)>> ELSE Decimal(n \div 10) \o <<Digit(n % 10)>>

\* Math.max(1e-20, 2 * (1 - normalCdf(z))) for z = z20 / 20, z20 in 0..100, in
\* millionths (rounded to the nearest; the floor 1e-20 is below the grid and
\* the smallest entry is one millionth)
TwoSidedTail(z20) ==
    <<
       1000000, 960122, 920344, 880765, 841481, 802587, 764177, 726339, 689157, 652710,
       617075, 582319, 548506, 515692, 483927, 453255, 423711, 395325, 368120, 342112,
       317311, 293718, 271332, 250144, 230139, 211300, 193601, 177016, 161513, 147059,
       133614, 121142, 109599, 98943, 89131, 80118, 71861, 64313, 57433, 51176,
       45500, 40364, 35729, 31555, 27807, 24449, 21448, 18773, 16395, 14286,
       12419, 10772, 9322, 8049, 6934, 5960, 5110, 4372, 3732, 3178,
       2700, 2289, 1935, 1633, 1374, 1154, 967, 808, 674, 561,
       465, 385, 318, 262, 216, 177, 145, 118, 96, 78,
       63, 51, 41, 33, 27, 21, 17, 14, 11, 9,
       7, 5, 4, 3, 3, 2, 2, 1, 1, 1,
       1
    >>[z20 + 1]

\* floor(10^6 * 10^(-k/20)) for k = 1..120
Pow10Neg ==
    <<
       891250, 794328, 707945, 630957, 562341, 501187, 446683, 398107, 354813, 316227,
       281838, 251188, 223872, 199526, 177827, 158489, 141253, 125892, 112201, 100000,
       89125, 79432, 70794, 63095, 56234, 50118, 44668, 39810, 35481, 31622,
       28183, 25118, 22387, 19952, 17782, 15848, 14125, 12589, 11220, 10000,
       8912, 7943, 7079, 6309, 5623, 5011, 4466, 3981, 3548, 3162,
       2818, 2511, 2238, 1995, 1778, 1584, 1412, 1258, 1122, 1000,
       891, 794, 707, 630, 562, 501, 446, 398, 354, 316,
       281, 251, 223, 199, 177, 158, 141, 125, 112, 100,
       89, 79, 70, 63, 56, 50, 44, 39, 35, 31,
       28, 25, 22, 19, 17, 15, 14, 12, 11, 10,
       8, 7, 7, 6, 5, 5, 4, 3, 3, 3,
       2, 2, 2, 1, 1, 1, 1, 1, 1, 1
    >>

\* -Math.log10(pval), rounded down to the grid (1/20), as a plot coordinate
NegLog10(pval) ==
    20 * Cardinality({k \in 1..Len(Pow10Neg) : Pow10Neg[k] >= pval})

\* the loop body of generateData for index i (0-based), the generator being
\* in state s before it: two draws, one for log2FC and one for the noise
GenPoint(s, i) ==
    LET s1         == RngStep(s)
        s2         == RngStep(s1)
        geneSymbol == GENE_SYMBOLS[(i % Len(GENE_SYMBOLS)) + 1]
        fc20       == RngFloor(s1, 120) - 60
        z20        == Abs(fc20) + RngFloor(s2, 40)
    IN  [id         |-> geneSymbol \o <<"_">> \o Decimal(i + 1),
         geneSymbol |-> geneSymbol,
         log2FC     |-> 20 * fc20,
         pval       |-> TwoSidedTail(z20)]

RECURSIVE GenPoints(_, _)
GenPoints(s, i) ==
    IF i >= N_POINTS THEN <<>>
    ELSE <<GenPoint(s, i)>> \o GenPoints(RngStep(RngStep(s)), i + 1)

\* generateData(seed): the raw points, then fdr and negLog10P attached;
\* _category is the field redraw sets
generateData(seed) ==
    LET raw == GenPoints(ToState(seed), 0)
        fdr == benjaminiHochberg([i \in 1..Len(raw) |-> raw[i].pval])
    IN  [i \in 1..Len(raw) |->
            [id         |-> raw[i].id,
             geneSymbol |-> raw[i].geneSymbol,
             log2FC     |-> raw[i].log2FC,
             pval       |-> raw[i].pval,
             fdr        |-> fdr[i],
             negLog10P  |-> NegLog10(raw[i].pval),
             _category  |-> "unset"]]

------------------------------------------------------------------------------
(* Cutoff lookup: src/app.js 151-161 *)

\* ascending insertion sort, as Array.prototype.sort with (a, b) => a - b
\* (the sorted tail t is bound once)
RECURSIVE SortAsc(_)
SortAsc(s) ==
    IF s = <<>> THEN <<>>
    ELSE CHOOSE r \in
             { LET k == Cardinality({j \in 1..Len(t) : t[j] <= Head(s)})
               IN  SubSeq(t, 1, k) \o <<Head(s)>> \o SubSeq(t, k + 1, Len(t)) :
                   t \in {SortAsc(Tail(s))} } : TRUE

\* the pval fields of [...data].sort((a, b) => a.pval - b.pval), in order
SortedPvals(data) == SortAsc([i \in 1..Len(data) |-> data[i].pval])

\* a variant of the loop that returns the p-value of the failing rank itself
CutoffInReturnsFailing(sorted, m, fdrThreshold) ==
    LET fail == {k \in 1..m : sorted[k] * m * (FdrDen \div k) > fdrThreshold * FdrDen}
    IN  IF fail # {}
        THEN sorted[CHOOSE x \in fail : \A y \in fail : x <= y]
        ELSE IF m = 0 THEN "error" ELSE sorted[m]

\* the loop over the sorted p-values: the first rank whose raw ratio
\* pval * m / k exceeds fdrThreshold decides; for m = 0 the program reads
\* sorted[-1].pval and throws (modelled "error")
CutoffIn(sorted, m, fdrThreshold) ==
    LET fail == {k \in 1..m : sorted[k] * m * (FdrDen \div k) > fdrThreshold * FdrDen}
    IN  IF fail # {}
        THEN LET k == CHOOSE x \in fail : \A y \in fail : x <= y
             IN  IF k = 1 THEN sorted[1] ELSE sorted[k - 1]
        ELSE IF m = 0 THEN "error" ELSE sorted[m]

\* (sorted is bound once, as the const in the code is)
pvalueAtFdrThreshold(data, fdrThreshold) ==
    CHOOSE r \in { CutoffIn(sorted, Len(data), fdrThreshold) :
                       sorted \in {SortedPvals(data)} } : TRUE

------------------------------------------------------------------------------
(* State: src/app.js 138-149, 164-166, 373 *)

VARIABLES
    data,               \* state.data, each point with the _category redraw gave it
    fcThreshold,        \* state.fcThreshold (plot coordinates)
    fdrThreshold,       \* state.fdrThreshold (p-value units)
    pinned,             \* state.pinned
    selected,           \* state.selected
    searchHighlightId,  \* state.searchHighlightId
    pvalAtFdr,          \* state.pvalAtFdr
    zoomDomain,         \* state.zoomDomain
    xScale,             \* the domain of xScale (its range is [0, width])
    yScale,             \* the domain of yScale (its range is [height, 0])
    boxStart,           \* where the drag started, or null
    pendingClick,       \* the click the browser dispatches after a press and a
                        \* release on the same element: "overlay" or "none"
    last,               \* history: the last event a handler acted on (one that
                        \* returned at its first guard is not recorded)
    probe,              \* a pure function called on its own: arguments and result
    topN,               \* state.topN
    showLabels,         \* state.showLabels
    tooltip,            \* the #tooltip element: visible, data-current-id, the
                        \* .uniprot-text element it holds and that element's text
    lookups,            \* the fetchUniProtDescription promises not yet settled
    cache               \* UNIPROT_CACHE

labelVars == <<topN, showLabels>>
tipVars == <<tooltip, lookups, cache>>

vars == <<data, fcThreshold, fdrThreshold, pinned, selected, searchHighlightId,
          pvalAtFdr, zoomDomain, xScale, yScale, boxStart, pendingClick, last, probe,
          topN, showLabels, tooltip, lookups, cache>>

null == <<>>

DEFAULT_FC_THRESHOLD == 1 * CUnit
DEFAULT_FDR_THRESHOLD == PUnit \div 20
DEFAULT_TOP_N == 10
MARGIN == [top |-> 24, right |-> 24, bottom |-> 40, left |-> 48]

\* the size redraw falls back on when the container reports none
svgWidth == 800
svgHeight == 500

\* the plot area: updateScalesAndAxes, src/app.js 210-211
width == svgWidth - MARGIN.left - MARGIN.right
height == svgHeight - MARGIN.top - MARGIN.bottom

Ids(d) == {d[i].id : i \in 1..Len(d)}

SetMin(S) == CHOOSE x \in S : \A y \in S : x <= y
SetMax(S) == CHOOSE x \in S : \A y \in S : x >= y

------------------------------------------------------------------------------
(* Scales and redraw: src/app.js 209-226, 228-232, 257-270 *)

\* domainX of updateScalesAndAxes
DomainX(d, zoom) ==
    IF zoom # null THEN zoom.x
    ELSE LET lo   == SetMin({d[i].log2FC : i \in 1..Len(d)})
             hi   == SetMax({d[i].log2FC : i \in 1..Len(d)})
             padX == Max(CUnit \div 2, (hi - lo) \div 20)
         IN  <<lo - padX, hi + padX>>

\* domainY of updateScalesAndAxes
DomainY(d, zoom) ==
    IF zoom # null THEN zoom.y
    ELSE LET maxY == SetMax({d[i].negLog10P : i \in 1..Len(d)})
         IN  <<0, Max((maxY * 21) \div 20, 2 * CUnit)>>

\* redraw() once the handler has set the state to (d, fc, fdr, zoom): nothing
\* for an empty dataset, else the scales, the cutoff and every point's category
redraw(d, fc, fdr, zoom) ==
    IF Len(d) = 0
    THEN /\ data' = d
         /\ UNCHANGED <<xScale, yScale, pvalAtFdr>>
    ELSE /\ xScale' = DomainX(d, zoom)
         /\ yScale' = DomainY(d, zoom)
         /\ pvalAtFdr' = pvalueAtFdrThreshold(d, fdr)
         /\ data' = [i \in 1..Len(d) |->
                        [d[i] EXCEPT !._category = getCategory(d[i], fc, fdr)]]

\* xScale.invert(px) times width, and yScale.invert(py) times height (d3's
\* linear scale, not clamped)
InvertX(px) == xScale[1] * width + px * (xScale[2] - xScale[1])
InvertY(py) == yScale[1] * height + (height - py) * (yScale[2] - yScale[1])

------------------------------------------------------------------------------
(* Startup: src/app.js 601-612 *)

\* the seeds startup and Regenerate may draw (the program's seed is Date.now())
Seeds == {1, 2}

\* the gene symbols of the model's datasets: the keys UNIPROT_CACHE can get
Genes == {GENE_SYMBOLS[(i % Len(GENE_SYMBOLS)) + 1] : i \in 0..(N_POINTS - 1)}

\* generateData(seed) for every seed, computed once
Generated == [seed \in Seeds |-> generateData(seed)]

InitState(seed) ==
    LET d == Generated[seed]
    IN  /\ fcThreshold = DEFAULT_FC_THRESHOLD
        /\ fdrThreshold = DEFAULT_FDR_THRESHOLD
        /\ pinned = {}
        /\ selected = {}
        /\ searchHighlightId = null
        /\ zoomDomain = null
        /\ xScale = DomainX(d, null)
        /\ yScale = DomainY(d, null)
        /\ pvalAtFdr = pvalueAtFdrThreshold(d, DEFAULT_FDR_THRESHOLD)
        /\ data = [i \in 1..Len(d) |->
                      [d[i] EXCEPT !._category =
                          getCategory(d[i], DEFAULT_FC_THRESHOLD, DEFAULT_FDR_THRESHOLD)]]
        /\ boxStart = null
        /\ pendingClick = "none"
        /\ last = [op |-> "init"]
        /\ topN = DEFAULT_TOP_N
        /\ showLabels = TRUE
        /\ tooltip = [visible |-> FALSE, currentId |-> null, el |-> 0,
                      text |-> [kind |-> "empty", gene |-> null]]
        /\ lookups = {}
        /\ cache = [g \in Genes |-> "absent"]

Init ==
    /\ \E seed \in Seeds : InitState(seed)
    /\ probe = [fn |-> "none"]

------------------------------------------------------------------------------
(* Strings: String.prototype.trim, toLowerCase, includes *)

UpperChars == <<"A", "B", "C", "D", "E", "F", "G", "H", "I", "J", "K", "L", "M",
                "N", "O", "P", "Q", "R", "S", "T", "U", "V", "W", "X", "Y", "Z">>
LowerChars == <<"a", "b", "c", "d", "e", "f", "g", "h", "i", "j", "k", "l", "m",
                "n", "o", "p", "q", "r", "s", "t", "u", "v", "w", "x", "y", "z">>
WhiteSpace == {" ", "\t"}

\* the characters that occur in ids and queries
Chars ==
    {UpperChars[k] : k \in 1..Len(UpperChars)} \cup {LowerChars[k] : k \in 1..Len(LowerChars)}
    \cup {Digit(n) : n \in 0..9} \cup {"_"} \cup WhiteSpace

\* a letter's lower case; any other character is itself
LowerChar ==
    [c \in Chars |->
        IF \E k \in 1..Len(UpperChars) : UpperChars[k] = c
        THEN LowerChars[CHOOSE k \in 1..Len(UpperChars) : UpperChars[k] = c]
        ELSE c]

toLowerCase(s) == [k \in 1..Len(s) |-> LowerChar[s[k]]]

RECURSIVE trimStart(_)
trimStart(s) == IF s # <<>> /\ Head(s) \in WhiteSpace THEN trimStart(Tail(s)) ELSE s

RECURSIVE trimEnd(_)
trimEnd(s) ==
    IF s # <<>> /\ s[Len(s)] \in WhiteSpace THEN trimEnd(SubSeq(s, 1, Len(s) - 1)) ELSE s

trim(s) == trimEnd(trimStart(s))

\* q occurs in s at some offset k (the empty q occurs in every s)
includes(s, q) ==
    \E k \in 0..(Len(s) - Len(q)) : \A j \in 1..Len(q) : s[k + j] = q[j]

------------------------------------------------------------------------------
(* Inputs the events draw *)

\* what the user types into the search box
Queries ==
    { <<>>, <<" ">>, <<"t", "p", "5", "3">>, <<"1">>, <<" ", "R", " ">>,
      <<"G">>, <<"x">> }

\* pointer positions relative to the plot group, in pixels
\* (a drag starts in the top left corner of the plot area and ends on the
\* spot, 3 pixels off, on the far side 3 pixels down, in the bottom right
\* corner, in the middle, or half way along either side)
StartPoints == { [x |-> 0, y |-> 0] }
EndPoints ==
    StartPoints \cup
    { [x |-> 3, y |-> 3], [x |-> width, y |-> 3], [x |-> width, y |-> height],
      [x |-> width \div 2, y |-> height \div 2],
      [x |-> width \div 2, y |-> height], [x |-> width, y |-> height \div 2] }

\* where the button comes up: anywhere while a drag is under way; a release
\* with no drag under way is served the same wherever it is
ReleasePoints == IF boxStart = null THEN StartPoints ELSE EndPoints

\* the element under the pointer when the button is released: the overlay
\* (empty plot area) or anything else (a point, the page outside the plot)
Targets == {"overlay", "other"}

\* mouse buttons: primary and secondary
Buttons == {0, 2}

\* slider values
FcValues == {0, CUnit}
FdrValues == {PUnit \div 20, PUnit \div 5}

\* No pointer gesture is under way: the primary button is up and no click
\* awaits its dispatch.  The controls and the points are operated then.
Idle == boxStart = null /\ pendingClick = "none"

------------------------------------------------------------------------------
(* Point click: src/app.js 292-298 *)

\* a toggle that never removes a pin
TogglePinnedAddOnly(id) == pinned \cup {id}

TogglePinned(id) == IF id \in pinned THEN pinned \ {id} ELSE pinned \cup {id}

\* A press and a release on the circle of observation id, and the click the
\* browser then dispatches to it.  The circle is no descendant of the overlay,
\* so neither startBox nor the overlay's click handler runs; endBox runs on
\* the release and returns at once since boxStart is null.
PointClick(id) ==
    /\ Idle
    /\ id \in Ids(data)
    /\ IF Cardinality(selected) > 0
       THEN UNCHANGED <<data, pinned, xScale, yScale, pvalAtFdr>>
       ELSE /\ pinned' = TogglePinned(id)
            /\ redraw(data, fcThreshold, fdrThreshold, zoomDomain)
    /\ last' = [op |-> "pointClick",
                effect |-> IF Cardinality(selected) > 0 THEN "none"
                           ELSE IF id \in pinned THEN "unpin" ELSE "pin"]
    /\ UNCHANGED <<fcThreshold, fdrThreshold, selected, searchHighlightId, zoomDomain,
                   boxStart, pendingClick, probe, labelVars, tipVars>>

------------------------------------------------------------------------------
(* Box selection: src/app.js 373-384, 396-421 *)

\* mousedown on the overlay (the primary button cannot go down twice without
\* coming up in between)
startBox(pt, button) ==
    /\ pendingClick = "none"
    /\ button = 0 => boxStart = null
    /\ IF button # 0
       THEN UNCHANGED <<boxStart, last>>
       ELSE /\ boxStart' = pt
            /\ last' = [op |-> "mousedown"]
    /\ UNCHANGED <<data, fcThreshold, fdrThreshold, pinned, selected, searchHighlightId,
                   pvalAtFdr, zoomDomain, xScale, yScale, pendingClick, probe, labelVars, tipVars>>

\* the data-coordinate rectangle of the drag from boxStart to pt: x0, x1 times
\* width and y0, y1 times height
DragRect(pt) ==
    LET x == Min(boxStart.x, pt.x)
        y == Min(boxStart.y, pt.y)
        w == Abs(pt.x - boxStart.x)
        h == Abs(pt.y - boxStart.y)
    IN  [x0 |-> InvertX(x), x1 |-> InvertX(x + w),
         y0 |-> InvertY(y), y1 |-> InvertY(y + h)]

\* the ids endBox adds to state.selected
BoxHits(d, r) ==
    {d[i].id : i \in {j \in 1..Len(d) :
        /\ d[j].log2FC * width >= Min(r.x0, r.x1)
        /\ d[j].log2FC * width <= Max(r.x0, r.x1)
        /\ d[j].negLog10P * height >= Min(r.y0, r.y1)
        /\ d[j].negLog10P * height <= Max(r.y0, r.y1)}}

\* w > 4 && h > 4
BoxCommits(pt) == Abs(pt.x - boxStart.x) > 4 /\ Abs(pt.y - boxStart.y) > 4

\* mouseup anywhere on the page.  When the press was on the overlay and the
\* release is on the overlay too, the browser dispatches a click to it next.
endBox(pt, button, target) ==
    /\ pendingClick = "none"
    /\ IF boxStart = null \/ button # 0
       THEN UNCHANGED <<data, selected, xScale, yScale, pvalAtFdr, boxStart,
                        pendingClick, last,
                   labelVars, tipVars>>
       ELSE /\ IF BoxCommits(pt)
               THEN /\ selected' = BoxHits(data, DragRect(pt))
                    /\ redraw(data, fcThreshold, fdrThreshold, zoomDomain)
               ELSE UNCHANGED <<data, selected, xScale, yScale, pvalAtFdr>>
            /\ boxStart' = null
            /\ pendingClick' = IF target = "overlay" THEN "overlay" ELSE "none"
            /\ last' = [op |-> "mouseup", commits |-> BoxCommits(pt),
                        moved |-> (pt # boxStart)]
    /\ UNCHANGED <<fcThreshold, fdrThreshold, pinned, searchHighlightId, zoomDomain, probe, labelVars, tipVars>>

------------------------------------------------------------------------------
(* Click on the empty plot area: src/app.js 181-187 *)

\* No listener runs before the overlay's own on a click dispatched to the
\* overlay, so e.defaultPrevented is false there.
\* an overlay click handler without pinned.clear()
OverlayClickKeepsPinned(defaultPrevented) ==
    /\ pendingClick = "overlay"
    /\ pendingClick' = "none"
    /\ IF defaultPrevented
       THEN UNCHANGED <<data, pinned, selected, xScale, yScale, pvalAtFdr>>
       ELSE /\ pinned' = pinned
            /\ selected' = {}
            /\ redraw(data, fcThreshold, fdrThreshold, zoomDomain)
    /\ last' = [op |-> "overlayClick",
                hadPinned |-> Cardinality(pinned), hadSelected |-> Cardinality(selected)]
    /\ UNCHANGED <<fcThreshold, fdrThreshold, searchHighlightId, zoomDomain, boxStart, probe, labelVars, tipVars>>

OverlayClick(defaultPrevented) ==
    /\ pendingClick = "overlay"
    /\ pendingClick' = "none"
    /\ IF defaultPrevented
       THEN UNCHANGED <<data, pinned, selected, xScale, yScale, pvalAtFdr>>
       ELSE /\ pinned' = {}
            /\ selected' = {}
            /\ redraw(data, fcThreshold, fdrThreshold, zoomDomain)
    /\ last' = [op |-> "overlayClick",
                hadPinned |-> Cardinality(pinned), hadSelected |-> Cardinality(selected)]
    /\ UNCHANGED <<fcThreshold, fdrThreshold, searchHighlightId, zoomDomain, boxStart, probe, labelVars, tipVars>>

------------------------------------------------------------------------------
(* Thresholds: src/app.js 466-480 *)

\* a threshold handler that also drops the selection
updateFcClearsSelected(v) ==
    /\ Idle
    /\ fcThreshold' = v
    /\ selected' = {}
    /\ redraw(data, v, fdrThreshold, zoomDomain)
    /\ last' = [op |-> "updateFc"]
    /\ UNCHANGED <<fdrThreshold, pinned, searchHighlightId, zoomDomain,
                   boxStart, pendingClick, probe, labelVars, tipVars>>

updateFc(v) ==
    /\ Idle
    /\ fcThreshold' = v
    /\ redraw(data, v, fdrThreshold, zoomDomain)
    /\ last' = [op |-> "updateFc"]
    /\ UNCHANGED <<fdrThreshold, pinned, selected, searchHighlightId, zoomDomain,
                   boxStart, pendingClick, probe, labelVars, tipVars>>

\* a variant that stores the threshold and leaves the derived values alone
updateFdrNoRedraw(v) ==
    /\ Idle
    /\ fdrThreshold' = v
    /\ last' = [op |-> "updateFdr"]
    /\ UNCHANGED <<data, xScale, yScale, pvalAtFdr, fcThreshold, pinned, selected,
                   searchHighlightId, zoomDomain, boxStart, pendingClick, probe,
                   labelVars, tipVars>>

updateFdr(v) ==
    /\ Idle
    /\ fdrThreshold' = v
    /\ redraw(data, fcThreshold, v, zoomDomain)
    /\ last' = [op |-> "updateFdr"]
    /\ UNCHANGED <<fcThreshold, pinned, selected, searchHighlightId, zoomDomain,
                   boxStart, pendingClick, probe, labelVars, tipVars>>

------------------------------------------------------------------------------
(* Search and zoom: src/app.js 496-526 *)

\* state.data.find((d) => d.id.toLowerCase().includes(q)): the index of the
\* first match in dataset order, 0 when there is none
\* a search that returns the last match instead of the first
FindIndexLast(d, q) ==
    LET hits == {i \in 1..Len(d) : includes(toLowerCase(d[i].id), q)}
    IN  IF hits = {} THEN 0 ELSE SetMax(hits)

FindIndex(d, q) ==
    LET hits == {i \in 1..Len(d) : includes(toLowerCase(d[i].id), q)}
    IN  IF hits = {} THEN 0 ELSE SetMin(hits)

\* const pad = 1.2
pad == (6 * CUnit) \div 5

\* the zoomDomain doSearch sets for the observation it found
\* a zoom window without the Math.max(0, ...) on its lower edge
ZoomOnUnclamped(found) ==
    [x |-> <<found.log2FC - pad, found.log2FC + pad>>,
     y |-> <<found.negLog10P - pad, found.negLog10P + pad>>]

ZoomOn(found) ==
    [x |-> <<found.log2FC - pad, found.log2FC + pad>>,
     y |-> <<Max(0, found.negLog10P - pad), found.negLog10P + pad>>]

\* value is the text of the search box
doSearch(value) ==
    LET q == toLowerCase(trim(value))
        k == FindIndex(data, q)
    IN  /\ Idle
        /\ IF q = <<>>
           THEN /\ searchHighlightId' = null
                /\ zoomDomain' = zoomDomain
           ELSE IF k # 0
           THEN /\ searchHighlightId' = data[k].id
                /\ zoomDomain' = ZoomOn(data[k])
           ELSE /\ searchHighlightId' = null
                /\ zoomDomain' = null
        /\ redraw(data, fcThreshold, fdrThreshold, zoomDomain')
        /\ last' = [op |-> "search", value |-> value]
        /\ UNCHANGED <<fcThreshold, fdrThreshold, pinned, selected, boxStart,
                       pendingClick, probe, labelVars, tipVars>>

\* a reset zoom handler without state.searchHighlightId = null
ResetZoomKeepsHighlight ==
    /\ Idle
    /\ zoomDomain' = null
    /\ searchHighlightId' = searchHighlightId
    /\ redraw(data, fcThreshold, fdrThreshold, null)
    /\ last' = [op |-> "resetZoom", hadSearch |-> (searchHighlightId # null),
                hadZoom |-> (zoomDomain # null)]
    /\ UNCHANGED <<fcThreshold, fdrThreshold, pinned, selected, boxStart,
                   pendingClick, probe, labelVars, tipVars>>

ResetZoom ==
    /\ Idle
    /\ zoomDomain' = null
    /\ searchHighlightId' = null
    /\ redraw(data, fcThreshold, fdrThreshold, null)
    /\ last' = [op |-> "resetZoom", hadSearch |-> (searchHighlightId # null),
                hadZoom |-> (zoomDomain # null)]
    /\ UNCHANGED <<fcThreshold, fdrThreshold, pinned, selected, boxStart,
                   pendingClick, probe, labelVars, tipVars>>

------------------------------------------------------------------------------
(* Regenerate: src/app.js 545-554 *)

\* seed is the value of Date.now() that generateData takes by default
\* a regenerate handler without state.zoomDomain = null
RegenerateKeepsZoom(seed) ==
    /\ Idle
    /\ pinned' = {}
    /\ selected' = {}
    /\ searchHighlightId' = null
    /\ zoomDomain' = zoomDomain
    /\ redraw(Generated[seed], fcThreshold, fdrThreshold, zoomDomain)
    /\ last' = [op |-> "regenerate", seed |-> seed,
                hadPinned |-> Cardinality(pinned), hadSelected |-> Cardinality(selected),
                hadSearch |-> (searchHighlightId # null), hadZoom |-> (zoomDomain # null)]
    /\ UNCHANGED <<fcThreshold, fdrThreshold, boxStart, pendingClick, probe, labelVars, tipVars>>

Regenerate(seed) ==
    /\ Idle
    /\ pinned' = {}
    /\ selected' = {}
    /\ searchHighlightId' = null
    /\ zoomDomain' = null
    /\ redraw(Generated[seed], fcThreshold, fdrThreshold, null)
    /\ last' = [op |-> "regenerate", seed |-> seed,
                hadPinned |-> Cardinality(pinned), hadSelected |-> Cardinality(selected),
                hadSearch |-> (searchHighlightId # null), hadZoom |-> (zoomDomain # null)]
    /\ UNCHANGED <<fcThreshold, fdrThreshold, boxStart, pendingClick, probe, labelVars, tipVars>>

------------------------------------------------------------------------------
(* The page: every event the handlers above serve *)

Next ==
    \/ \E i \in 1..Len(data) : PointClick(data[i].id)
    \/ \E pt \in StartPoints, button \in Buttons : startBox(pt, button)
    \/ \E pt \in ReleasePoints, button \in Buttons, target \in Targets :
            endBox(pt, button, target)
    \/ OverlayClick(FALSE)
    \/ \E v \in FcValues : updateFc(v)
    \/ \E v \in FdrValues : updateFdr(v)
    \/ \E value \in Queries : doSearch(value)
    \/ ResetZoom
    \/ \E seed \in Seeds : Regenerate(seed)

Spec == Init /\ [][Next]_vars

------------------------------------------------------------------------------
(* The threshold and top-N controls on their own: src/app.js 466-489 *)

\* what parseInt(topNInput.value, 10) can give: NaN or an integer
TopNInputs ==
    {[isNaN |-> TRUE, n |-> 0]} \cup {[isNaN |-> FALSE, n |-> k] : k \in {-3, 0, 1, 50, 51}}

\* the change handler of the top-N input:
\* state.topN = Math.max(0, Math.min(50, parseInt(topNInput.value, 10) || 10))
setTopN(v) ==
    /\ Idle
    /\ topN' = Max(0, Min(50, IF v.isNaN \/ v.n = 0 THEN 10 ELSE v.n))
    /\ redraw(data, fcThreshold, fdrThreshold, zoomDomain)
    /\ last' = [op |-> "setTopN", v |-> v]
    /\ UNCHANGED <<fcThreshold, fdrThreshold, pinned, selected, searchHighlightId,
                   zoomDomain, boxStart, pendingClick, probe, showLabels, tipVars>>

\* the change handler of the show-labels checkbox
setShowLabels(checked) ==
    /\ Idle
    /\ showLabels' = checked
    /\ redraw(data, fcThreshold, fdrThreshold, zoomDomain)
    /\ last' = [op |-> "setShowLabels"]
    /\ UNCHANGED <<fcThreshold, fdrThreshold, pinned, selected, searchHighlightId,
                   zoomDomain, boxStart, pendingClick, probe, topN, tipVars>>

\* what parseFloat can give the threshold handlers when the value is not one
\* the sliders offer: -1 and 0 .. 1 for fcThreshold, 0.05 .. 2 for fdrThreshold
FcInputs == FcValues \cup {-CUnit}
FdrInputs == FdrValues \cup {2 * PUnit}

NextControls ==
    \/ \E v \in TopNInputs : setTopN(v)
    \/ \E checked \in BOOLEAN : setShowLabels(checked)
    \/ \E v \in FcInputs : updateFc(v)
    \/ \E v \in FdrInputs : updateFdr(v)
    \/ \E seed \in Seeds : Regenerate(seed)

SpecControls == Init /\ [][NextControls]_vars

------------------------------------------------------------------------------
(* The tooltip and its UniProt lookups: src/app.js 97-135, 333-370 *)

\* mouseenter on point i.  tip.html(baseHtml) gives the tooltip a new
\* .uniprot-text element (numbered el) showing "Loading..."; the promise of
\* fetchUniProtDescription is pending with its callback, which holds that
\* element and geneId; cached is what UNIPROT_CACHE held at the call
\* ("absent": the request goes to the network)
showTooltip(i) ==
    LET geneId == data[i].geneSymbol
        el     == tooltip.el + 1
    IN  /\ tooltip.el < MaxHovers
        /\ tooltip' = [visible |-> TRUE, currentId |-> geneId, el |-> el,
                       text |-> [kind |-> "loading", gene |-> null]]
        /\ lookups' = lookups \cup {[gene |-> geneId, el |-> el, cached |-> cache[geneId]]}
        /\ last' = [op |-> "showTooltip"]
        /\ UNCHANGED <<data, fcThreshold, fdrThreshold, pinned, selected, searchHighlightId,
                       pvalAtFdr, zoomDomain, xScale, yScale, boxStart, pendingClick, probe,
                       labelVars, cache>>

\* mouseleave
hideTooltip ==
    /\ tooltip.visible
    /\ tooltip' = [tooltip EXCEPT !.visible = FALSE]
    /\ last' = [op |-> "hideTooltip"]
    /\ UNCHANGED <<data, fcThreshold, fdrThreshold, pinned, selected, searchHighlightId,
                   pvalAtFdr, zoomDomain, xScale, yScale, boxStart, pendingClick, probe,
                   labelVars, lookups, cache>>

\* what a request to the network ends in: a description, or null (no entry,
\* a response that is not ok, or a rejected fetch)
Outcomes == {"info", "null"}

\* a variant of the callback without its two guards
SettleLookupUnguarded(l, r) ==
    LET result == IF l.cached = "absent" THEN r ELSE l.cached
    IN  /\ l \in lookups
        /\ l.cached # "absent" => r = l.cached
        /\ cache' = IF l.cached = "absent" THEN [cache EXCEPT ![l.gene] = r] ELSE cache
        /\ tooltip' = IF l.el = tooltip.el
                      THEN [tooltip EXCEPT !.text =
                               IF result = "info" THEN [kind |-> "info", gene |-> l.gene]
                               ELSE [kind |-> "none", gene |-> null]]
                      ELSE tooltip
        /\ lookups' = lookups \ {l}
        /\ last' = [op |-> "lookupSettled", gene |-> l.gene, applied |-> TRUE]
        /\ UNCHANGED <<data, fcThreshold, fdrThreshold, pinned, selected, searchHighlightId,
                       pvalAtFdr, zoomDomain, xScale, yScale, boxStart, pendingClick, probe,
                       labelVars>>

\* a pending lookup settles: a request to the network stores its outcome in
\* UNIPROT_CACHE, a cached one resolves to the value read at the call.  Then
\* the callback runs: it returns unless the tooltip is visible and its
\* data-current-id is the callback's geneId, else it writes the description
\* or "No description found." into the element it holds, which is on screen
\* only while it is still the tooltip's element
SettleLookup(l, r) ==
    LET result == IF l.cached = "absent" THEN r ELSE l.cached
        passes == tooltip.visible /\ tooltip.currentId = l.gene
    IN  /\ l \in lookups
        /\ l.cached # "absent" => r = l.cached
        /\ cache' = IF l.cached = "absent" THEN [cache EXCEPT ![l.gene] = r] ELSE cache
        /\ tooltip' = IF passes /\ l.el = tooltip.el
                      THEN [tooltip EXCEPT !.text =
                               IF result = "info" THEN [kind |-> "info", gene |-> l.gene]
                               ELSE [kind |-> "none", gene |-> null]]
                      ELSE tooltip
        /\ lookups' = lookups \ {l}
        /\ last' = [op |-> "lookupSettled", gene |-> l.gene, applied |-> passes]
        /\ UNCHANGED <<data, fcThreshold, fdrThreshold, pinned, selected, searchHighlightId,
                       pvalAtFdr, zoomDomain, xScale, yScale, boxStart, pendingClick, probe,
                       labelVars>>

NextTooltip ==
    \/ \E i \in 1..Len(data) : showTooltip(i)
    \/ hideTooltip
    \/ \E l \in lookups, r \in Outcomes : SettleLookup(l, r)
    \/ PointClick(data[1].id)

InitTooltip == InitState(1) /\ probe = [fn |-> "none"]

SpecTooltip == InitTooltip /\ [][NextTooltip]_vars

------------------------------------------------------------------------------
(* benjaminiHochberg on its own: every sequence of up to MaxLen p-values *)

\* 0.01 .. 0.05 and 0.6
PvalSamples == {PUnit \div 100, PUnit \div 50, (3 * PUnit) \div 100, PUnit \div 25,
                PUnit \div 20, (3 * PUnit) \div 5}

PvalSeqs == UNION {[1..n -> PvalSamples] : n \in 0..MaxLen}

InitBH ==
    /\ InitState(1)
    /\ probe \in {[fn |-> "benjaminiHochberg", pvals |-> s, done |-> FALSE, out |-> <<>>] :
                    s \in PvalSeqs}

CallBH ==
    /\ probe.fn = "benjaminiHochberg"
    /\ ~probe.done
    /\ probe' = [probe EXCEPT !.done = TRUE, !.out = benjaminiHochberg(probe.pvals)]
    /\ UNCHANGED <<data, fcThreshold, fdrThreshold, pinned, selected, searchHighlightId,
                   pvalAtFdr, zoomDomain, xScale, yScale, boxStart, pendingClick, last,
                   labelVars, tipVars>>

NextBH == CallBH

SpecBH == InitBH /\ [][NextBH]_vars

------------------------------------------------------------------------------
(* getCategory on its own: observations and thresholds around the boundaries *)

\* fdr 0, 0.04, 0.05, 0.06 and 1
FdrSamples == {0, FdrOne \div 25, FdrOne \div 20, (3 * FdrOne) \div 50, FdrOne}
\* log2FC -2 .. 2
EffectSamples == {-2 * CUnit, -CUnit, 0, CUnit, 2 * CUnit}
FcThresholdSamples == {0, CUnit, 2 * CUnit}
FdrThresholdSamples == {0, PUnit \div 20, PUnit}

InitCategory ==
    /\ InitState(1)
    /\ probe \in {[fn |-> "getCategory", d |-> [fdr |-> f, log2FC |-> e],
                   fcThreshold |-> fc, fdrThreshold |-> ft, done |-> FALSE, out |-> "unset"] :
                    f \in FdrSamples, e \in EffectSamples,
                    fc \in FcThresholdSamples, ft \in FdrThresholdSamples}

CallCategory ==
    /\ probe.fn = "getCategory"
    /\ ~probe.done
    /\ probe' = [probe EXCEPT !.done = TRUE,
                              !.out = getCategory(probe.d, probe.fcThreshold, probe.fdrThreshold)]
    /\ UNCHANGED <<data, fcThreshold, fdrThreshold, pinned, selected, searchHighlightId,
                   pvalAtFdr, zoomDomain, xScale, yScale, boxStart, pendingClick, last,
                   labelVars, tipVars>>

NextCategory == CallCategory

SpecCategory == InitCategory /\ [][NextCategory]_vars

------------------------------------------------------------------------------
(* The top-significant list of redraw on its own: src/app.js 306-309 *)

\* state.data.filter(d => d._category !== "not_sig")
\*           .sort((a, b) => a.pval - b.pval).slice(0, state.topN);
\* Array.prototype.sort is stable: equal p-values keep their dataset order
topSignificant(d, n) ==
    LET keep   == {i \in 1..Len(d) : d[i]._category # "not_sig"}
        sig    == [k \in 1..Cardinality(keep) |->
                      d[CHOOSE i \in keep : Cardinality({j \in keep : j < i}) = k - 1]]
        pv     == [k \in 1..Len(sig) |-> sig[k].pval]
        sorted == [k \in 1..Len(sig) |-> sig[CHOOSE i \in 1..Len(sig) : SortRank(pv, i) = k]]
    IN  SubSeq(sorted, 1, Min(n, Len(sorted)))

\* p-values 1e-6 and 1e-3
TopPvalSamples == {1, PUnit \div 1000}
Categories == {"sig_up", "sig_down", "not_sig"}
TopNSamples == {0, 1, 2, DEFAULT_TOP_N}

\* the id generateData gives the point at index i (0-based)
PointId(i) == GENE_SYMBOLS[(i % Len(GENE_SYMBOLS)) + 1] \o <<"_">> \o Decimal(i + 1)

TopDatasets ==
    UNION {{[i \in 1..n |-> [id |-> PointId(i - 1), pval |-> pv[i], _category |-> cat[i]]] :
                pv \in [1..n -> TopPvalSamples], cat \in [1..n -> Categories]} :
           n \in 0..N_POINTS}

InitTop ==
    /\ InitState(1)
    /\ probe \in {[fn |-> "topSignificant", data |-> d, topN |-> n, done |-> FALSE, out |-> <<>>] :
                    d \in TopDatasets, n \in TopNSamples}

CallTop ==
    /\ probe.fn = "topSignificant"
    /\ ~probe.done
    /\ probe' = [probe EXCEPT !.done = TRUE, !.out = topSignificant(probe.data, probe.topN)]
    /\ UNCHANGED <<data, fcThreshold, fdrThreshold, pinned, selected, searchHighlightId,
                   pvalAtFdr, zoomDomain, xScale, yScale, boxStart, pendingClick, last,
                   labelVars, tipVars>>

NextTop == CallTop

SpecTop == InitTop /\ [][NextTop]_vars

------------------------------------------------------------------------------
(* pvalueAtFdrThreshold on its own: datasets of up to MaxLen p-values *)

\* 0.01, 0.02, 0.04 and 0.6
CutoffPvalSamples == {PUnit \div 100, PUnit \div 50, PUnit \div 25, (3 * PUnit) \div 5}
\* 0.01, 0.05 and 0.2
CutoffThresholds == {PUnit \div 100, PUnit \div 20, PUnit \div 5}

InitCutoff ==
    /\ InitState(1)
    /\ probe \in {[fn |-> "pvalueAtFdrThreshold", pvals |-> s, fdrThreshold |-> ft,
                   done |-> FALSE, fdr |-> <<>>, out |-> 0] :
                    s \in UNION {[1..n -> CutoffPvalSamples] : n \in 0..MaxLen},
                    ft \in CutoffThresholds}

\* the dataset gets its fdr values as in generateData, then the cutoff is
\* looked up as in drawThresholdLines
CallCutoff ==
    /\ probe.fn = "pvalueAtFdrThreshold"
    /\ ~probe.done
    /\ LET fdr == benjaminiHochberg(probe.pvals)
           d   == [i \in 1..Len(probe.pvals) |-> [pval |-> probe.pvals[i], fdr |-> fdr[i]]]
       IN  probe' = [probe EXCEPT !.done = TRUE, !.fdr = fdr,
                                  !.out = pvalueAtFdrThreshold(d, probe.fdrThreshold)]
    /\ UNCHANGED <<data, fcThreshold, fdrThreshold, pinned, selected, searchHighlightId,
                   pvalAtFdr, zoomDomain, xScale, yScale, boxStart, pendingClick, last,
                   labelVars, tipVars>>

NextCutoff == CallCutoff

SpecCutoff == InitCutoff /\ [][NextCutoff]_vars

------------------------------------------------------------------------------
(* createRng on its own: up to MaxDraws draws from one seed *)

\* 0 .. 24, and the seed whose first state is 2^32 - 1
RngSeeds == 0..24 \cup {9973 * Half + 46880}

InitRng ==
    /\ InitState(1)
    /\ probe \in {[fn |-> "createRng", seed |-> seed, s |-> ToState(seed), draws |-> 0,
                   floor1 |-> 0, floor120 |-> 0] : seed \in RngSeeds}

\* one call of the returned function: the state moves on and s / 0xffffffff
\* is returned; floor1 is the integer part of the returned value and floor120
\* the integer part of 120 times it
DrawRng ==
    /\ probe.fn = "createRng"
    /\ probe.draws < MaxDraws
    /\ LET s == RngStep(probe.s)
       IN  probe' = [probe EXCEPT !.s = s, !.draws = @ + 1,
                                  !.floor1 = RngFloor(s, 1), !.floor120 = RngFloor(s, 120)]
    /\ UNCHANGED <<data, fcThreshold, fdrThreshold, pinned, selected, searchHighlightId,
                   pvalAtFdr, zoomDomain, xScale, yScale, boxStart, pendingClick, last,
                   labelVars, tipVars>>

NextRng == DrawRng

SpecRng == InitRng /\ [][NextRng]_vars

------------------------------------------------------------------------------
(* Properties of benjaminiHochberg and getCategory *)

Called(fn) == probe.fn = fn /\ probe.done

\* the p-value at rank k (1-based, ascending)
Ranked(pvals, k) == pvals[CHOOSE i \in 1..Len(pvals) : SortRank(pvals, i) = k]

\* the step-up adjusted value at rank k: min(1, min over ranks j >= k of p_(j)*n/j)
StepUpAt(pvals, k) ==
    LET n == Len(pvals)
    IN  SetMin({Min(FdrOne, Ranked(pvals, j) * n * (FdrDen \div j)) : j \in k..n})

\* C1: the values benjaminiHochberg returns, read in ascending order of their
\* input p-values, never decrease: a smaller p-value never gets a larger FDR.
C1_BHNonDecreasing ==
    Called("benjaminiHochberg") =>
        \A i, j \in 1..Len(probe.pvals) :
            probe.pvals[i] < probe.pvals[j] => probe.out[i] <= probe.out[j]

\* C2: benjaminiHochberg returns at every input index the step-up adjusted
\* value of that p-value, min(1, min over ranks j >= rank(i) of p_(j)*n/j).
C2_BHStepUp ==
    Called("benjaminiHochberg") =>
        \A i \in 1..Len(probe.pvals) :
            probe.out[i] = StepUpAt(probe.pvals, SortRank(probe.pvals, i))

CategoryUp == probe.d.fdr <= probe.fdrThreshold * FdrDen /\ probe.d.log2FC >= probe.fcThreshold
CategoryDown == probe.d.fdr <= probe.fdrThreshold * FdrDen /\ probe.d.log2FC <= -probe.fcThreshold

\* C3 as stated: getCategory returns "sig_up" exactly when fdr <= fdrThreshold
\* and log2FC >= fcThreshold, "sig_down" exactly when fdr <= fdrThreshold and
\* log2FC <= -fcThreshold, and "not_sig" otherwise.
C3_CategoryIffAsStated ==
    Called("getCategory") =>
        /\ probe.out = "sig_up" <=> CategoryUp
        /\ probe.out = "sig_down" <=> CategoryDown
        /\ probe.out = "not_sig" <=> ~CategoryUp /\ ~CategoryDown

\* C3: getCategory returns "sig_up" exactly when fdr <= fdrThreshold and
\* log2FC >= fcThreshold, "sig_down" exactly when fdr <= fdrThreshold and
\* log2FC <= -fcThreshold and the condition for "sig_up" does not hold, and
\* "not_sig" otherwise; where both conditions hold (fcThreshold = 0 and
\* log2FC = 0) the result is "sig_up".
C3_CategoryIff ==
    Called("getCategory") =>
        /\ probe.out = "sig_up" <=> CategoryUp
        /\ probe.out = "sig_down" <=> CategoryDown /\ ~CategoryUp
        /\ probe.out = "not_sig" <=> ~CategoryUp /\ ~CategoryDown

C3_Witness ==
    /\ Called("getCategory")
    /\ probe.fcThreshold = 0
    /\ probe.d.log2FC = 0
    /\ probe.d.fdr <= probe.fdrThreshold * FdrDen
    /\ probe.out = "sig_up"

------------------------------------------------------------------------------
(* Properties of the interaction state *)

\* C4: a click on a point leaves selected, searchHighlightId and zoomDomain
\* alone; with selected empty it removes the point's id from pinned if it is
\* there and adds it otherwise, every other pin staying; with selected
\* non-empty it leaves pinned as it is.
C4_PinToggle ==
    [][\A i \in 1..Len(data) :
          (last'.op = "pointClick" /\ PointClick(data[i].id)) =>
              /\ UNCHANGED <<selected, searchHighlightId, zoomDomain>>
              /\ pinned' = IF selected # {} THEN pinned
                           ELSE IF data[i].id \in pinned THEN pinned \ {data[i].id}
                           ELSE pinned \cup {data[i].id}]_vars

C4_Witness == last.op = "pointClick" /\ last.effect = "unpin" /\ pinned # {}

\* C5: the mouseup that ends a drag wider and taller than 4 pixels replaces
\* selected by exactly the ids inside the rectangle and leaves pinned alone,
\* and the click the browser delivers for that release changes neither set.
C5_BoxSelectSurvivesRelease ==
    [][/\ \A pt \in EndPoints, target \in Targets :
              (boxStart # null /\ BoxCommits(pt) /\ endBox(pt, 0, target)) =>
                  selected' = BoxHits(data, DragRect(pt)) /\ pinned' = pinned
       /\ (last.op = "mouseup" /\ last.commits /\ pendingClick = "overlay") =>
              UNCHANGED <<selected, pinned>>]_vars

\* C6: a drag that moves the pointer but stays within 4 pixels in width or in
\* height changes neither selected nor pinned, at the mouseup and at the click
\* the browser delivers for that release.
C6_DegenerateDragNoOp ==
    [][/\ \A pt \in EndPoints, target \in Targets :
              (boxStart # null /\ ~BoxCommits(pt) /\ endBox(pt, 0, target)) =>
                  UNCHANGED <<selected, pinned>>
       /\ (last.op = "mouseup" /\ ~last.commits /\ last.moved /\ pendingClick = "overlay") =>
              UNCHANGED <<selected, pinned>>]_vars

\* C7: after a click on the empty plot area pinned and selected are both empty.
C7_EmptyClickClears ==
    last.op = "overlayClick" => pinned = {} /\ selected = {}

C7_Witness ==
    /\ last.op = "overlayClick"
    /\ last.hadPinned = 2
    /\ last.hadSelected = 3
    /\ pinned = {}
    /\ selected = {}

\* C8: after Regenerate the dataset is the newly generated one and pinned,
\* selected, searchHighlightId and zoomDomain are all cleared.
C8_RegenerateClears ==
    last.op = "regenerate" =>
        /\ [i \in 1..Len(data) |-> [data[i] EXCEPT !._category = "unset"]]
               = generateData(last.seed)
        /\ pinned = {}
        /\ selected = {}
        /\ searchHighlightId = null
        /\ zoomDomain = null

C8_Witness ==
    /\ last.op = "regenerate"
    /\ last.hadPinned > 0
    /\ last.hadSelected > 0
    /\ last.hadSearch
    /\ last.hadZoom

\* C9: after a search, either searchHighlightId names a point and zoomDomain
\* is the window around that point, or both are null.
C9_SearchAllOrNothing ==
    last.op = "search" =>
        \/ searchHighlightId = null /\ zoomDomain = null
        \/ \E i \in 1..Len(data) :
              searchHighlightId = data[i].id /\ zoomDomain = ZoomOn(data[i])

\* id contains q as a substring, letter case ignored
ContainsCI(id, q) == includes(toLowerCase(id), toLowerCase(q))

FirstMatch(q) ==
    LET hits == {i \in 1..Len(data) : ContainsCI(data[i].id, q)}
    IN  data[CHOOSE i \in hits : \A j \in hits : i <= j].id

\* C10 as stated: whenever some id contains the query, letter case ignored, a
\* search sets searchHighlightId to the first such id in dataset order and
\* leaves pinned and selected alone.
C10_SearchFirstMatchAsStated ==
    [][\A value \in Queries :
          (/\ last'.op = "search"
           /\ last'.value = value
           /\ \E i \in 1..Len(data) : ContainsCI(data[i].id, value)
           /\ doSearch(value)) =>
              searchHighlightId' = FirstMatch(value) /\ UNCHANGED <<pinned, selected>>]_vars

\* C10: whenever the query is not empty and some id contains it, letter case
\* ignored, a search sets searchHighlightId to the first such id in dataset
\* order and leaves pinned and selected alone.
C10_SearchFirstMatch ==
    [][\A value \in Queries :
          (/\ last'.op = "search"
           /\ last'.value = value
           /\ value # <<>>
           /\ \E i \in 1..Len(data) : ContainsCI(data[i].id, value)
           /\ doSearch(value)) =>
              searchHighlightId' = FirstMatch(value) /\ UNCHANGED <<pinned, selected>>]_vars

C10_Witness ==
    /\ last.op = "search"
    /\ last.value = <<"t", "p", "5", "3">>
    /\ searchHighlightId = <<"T", "P", "5", "3", "_", "1">>
    /\ pinned # {}
    /\ selected # {}

\* the point searchHighlightId names
Highlighted == data[CHOOSE i \in 1..Len(data) : data[i].id = searchHighlightId]

\* C11 as stated: after a search that found a point, zoomDomain is centred on
\* the point in both axes, with the padding 1.2 on each side.
C11_ZoomCentredAsStated ==
    (last.op = "search" /\ searchHighlightId # null) =>
        /\ zoomDomain.x[1] + zoomDomain.x[2] = 2 * Highlighted.log2FC
        /\ zoomDomain.x[2] - zoomDomain.x[1] = 2 * ((6 * CUnit) \div 5)
        /\ zoomDomain.y[1] + zoomDomain.y[2] = 2 * Highlighted.negLog10P
        /\ zoomDomain.y[2] - zoomDomain.y[1] = 2 * ((6 * CUnit) \div 5)

\* C11: after a search that found a point, zoomDomain is centred on the point
\* in x with the padding 1.2 on each side; in y it reaches 1.2 above the point
\* and 1.2 below it but not below 0, so it is centred exactly when the point's
\* negLog10P is at least 1.2.
C11_ZoomCentred ==
    (last.op = "search" /\ searchHighlightId # null) =>
        /\ zoomDomain.x[1] + zoomDomain.x[2] = 2 * Highlighted.log2FC
        /\ zoomDomain.x[2] - zoomDomain.x[1] = 2 * ((6 * CUnit) \div 5)
        /\ zoomDomain.y[2] = Highlighted.negLog10P + (6 * CUnit) \div 5
        /\ zoomDomain.y[1] = IF Highlighted.negLog10P >= (6 * CUnit) \div 5
                             THEN Highlighted.negLog10P - (6 * CUnit) \div 5
                             ELSE 0

C11_Witness ==
    /\ last.op = "search"
    /\ searchHighlightId # null
    /\ Highlighted.negLog10P < (6 * CUnit) \div 5
    /\ Highlighted.negLog10P > 0
    /\ zoomDomain.y[1] = 0

\* C12: Reset zoom sets zoomDomain and searchHighlightId to null and leaves
\* pinned and selected as they were.
C12_ResetZoom ==
    [][(last'.op = "resetZoom" /\ ResetZoom) =>
          /\ zoomDomain' = null
          /\ searchHighlightId' = null
          /\ UNCHANGED <<pinned, selected>>]_vars

C12_Witness ==
    /\ last.op = "resetZoom"
    /\ last.hadSearch
    /\ last.hadZoom
    /\ pinned # {}
    /\ selected # {}
    /\ zoomDomain = null
    /\ searchHighlightId = null

\* C13: a threshold change leaves pinned, selected, searchHighlightId and
\* zoomDomain as they were; a search and Reset zoom leave pinned and selected
\* as they were; pinned or selected change only at Regenerate, an empty-area
\* click, a point click or the mouseup ending a box select.
C13_StatePersists ==
    [][/\ last'.op \in {"updateFc", "updateFdr"} =>
              UNCHANGED <<pinned, selected, searchHighlightId, zoomDomain>>
       /\ last'.op \in {"search", "resetZoom"} => UNCHANGED <<pinned, selected>>
       /\ <<pinned, selected>>' # <<pinned, selected>> =>
              last'.op \in {"regenerate", "overlayClick", "pointClick", "mouseup"}]_vars

C13_Witness ==
    /\ last.op = "updateFc"
    /\ fcThreshold # DEFAULT_FC_THRESHOLD
    /\ pinned # {}
    /\ selected # {}
    /\ searchHighlightId # null
    /\ zoomDomain # null

------------------------------------------------------------------------------
(* Properties of the top-significant list *)

\* UTF-16 code unit order of the characters ids are made of
AsciiOrder == [k \in 1..10 |-> Digit(k - 1)] \o UpperChars \o <<"_">> \o LowerChars
CodeUnit(c) == CHOOSE k \in 1..Len(AsciiOrder) : AsciiOrder[k] = c

\* a < b as strings
IdBefore(a, b) ==
    \E k \in 1..(Min(Len(a), Len(b)) + 1) :
        /\ \A j \in 1..(k - 1) : a[j] = b[j]
        /\ IF k > Len(a) THEN k <= Len(b)
           ELSE k <= Len(b) /\ CodeUnit(a[k]) < CodeUnit(b[k])

\* x comes before y by p-value, ties broken by id
KeyBefore(x, y) == x.pval < y.pval \/ (x.pval = y.pval /\ IdBefore(x.id, y.id))

\* C14: the top-significant list holds only points whose category is not
\* "not_sig", at most topN of them, in ascending order of p-value with equal
\* p-values in id order, and every significant point left out comes after
\* every listed one in that order.
C14_TopSignificantOrder ==
    Called("topSignificant") =>
        LET out == probe.out
            d   == probe.data
        IN  /\ \A k \in 1..Len(out) :
                  out[k]._category # "not_sig" /\ \E i \in 1..Len(d) : d[i] = out[k]
            /\ Len(out) <= probe.topN
            /\ \A j, k \in 1..Len(out) : j < k => KeyBefore(out[j], out[k])
            /\ \A i \in 1..Len(d) :
                  (d[i]._category # "not_sig" /\ \A k \in 1..Len(out) : out[k] # d[i]) =>
                      \A k \in 1..Len(out) : KeyBefore(out[k], d[i])

------------------------------------------------------------------------------
(* Properties of the controls *)

\* C15: after the top-N handler has run on an integer n, topN is n clamped to
\* 0 .. 50: n itself for 0 <= n <= 50, 0 below and 50 above.
C15_TopNClamped ==
    (last.op = "setTopN" /\ ~last.v.isNaN) =>
        topN = IF last.v.n < 0 THEN 0 ELSE IF last.v.n > 50 THEN 50 ELSE last.v.n

\* C16: in every reachable state fcThreshold is at least 0 and fdrThreshold
\* lies between 0 and 1.
C16_ThresholdsInRange ==
    /\ fcThreshold >= 0
    /\ fdrThreshold >= 0
    /\ fdrThreshold <= PUnit

------------------------------------------------------------------------------
(* Properties of the cutoff lookup, the classifier and the generator *)

C19_CategoryTotal ==
    Called("getCategory") =>
        /\ probe.out \in {"sig_up", "sig_down", "not_sig"}
        /\ probe.d.fdr > probe.fdrThreshold * FdrDen => probe.out = "not_sig"

C19_Witness ==
    /\ Called("getCategory")
    /\ probe.d.fdr > probe.fdrThreshold * FdrDen
    /\ probe.d.log2FC >= probe.fcThreshold
    /\ probe.fcThreshold > 0
    /\ probe.out = "not_sig"

\* C20: the state of the generator stays in 0 .. 2^32 - 1 and every value it
\* returns lies in [0, 1): its integer part is 0.
C20_RngBelowOne ==
    probe.fn = "createRng" =>
        /\ probe.s[1] \in 0..(Half - 1)
        /\ probe.s[2] \in 0..(Half - 1)
        /\ probe.draws > 0 => probe.floor1 = 0

------------------------------------------------------------------------------
(* Properties of the tooltip lookups *)

\* C18: when a lookup settles, the tooltip's text changes only if the tooltip
\* is visible and its data-current-id is the gene the lookup was issued for,
\* and then to that gene's description or "No description found."; the
\* tooltip's visibility and data-current-id, pinned, selected,
\* searchHighlightId and zoomDomain stay as they were.  While lookups are
\* pending, hovering, leaving and clicking a point remain possible.
C18_LookupGuard ==
    /\ [][\A l \in lookups, r \in Outcomes :
             (last'.op = "lookupSettled" /\ SettleLookup(l, r)) =>
                 /\ tooltip'.text # tooltip.text =>
                        /\ tooltip.visible
                        /\ tooltip.currentId = l.gene
                        /\ tooltip'.text \in {[kind |-> "info", gene |-> l.gene],
                                              [kind |-> "none", gene |-> null]}
                 /\ tooltip'.visible = tooltip.visible
                 /\ tooltip'.currentId = tooltip.currentId
                 /\ UNCHANGED <<pinned, selected, searchHighlightId, zoomDomain>>]_vars
    /\ [](lookups # {} =>
             /\ ENABLED PointClick(data[1].id)
             /\ tooltip.visible => ENABLED hideTooltip
             /\ tooltip.el < MaxHovers => \A i \in 1..Len(data) : ENABLED showTooltip(i))

\* a result for another gene than the one in focus has just been discarded,
\* a lookup is still pending, and a point was pinned meanwhile
C18_Witness ==
    /\ last.op = "lookupSettled"
    /\ ~last.applied
    /\ tooltip.visible
    /\ tooltip.currentId # last.gene
    /\ tooltip.text = [kind |-> "loading", gene |-> null]
    /\ lookups # {}
    /\ pinned # {}

------------------------------------------------------------------------------
(* Properties of the cutoff and of the derived values *)

\* the ranks k whose un-adjusted ratio p_(k)*n/k exceeds thr
FailingRanks(pvals, thr) ==
    {k \in 1..Len(pvals) :
        Ranked(pvals, k) * Len(pvals) * (FdrDen \div k) > thr * FdrDen}

PvalSet(pvals) == {pvals[i] : i \in 1..Len(pvals)}

\* C21: for a dataset that is not empty, pvalueAtFdrThreshold returns p_(k-1)
\* for the first rank k (ascending p-values) whose un-adjusted ratio
\* p_(k)*n/k exceeds fdrThreshold, the smallest p-value if that rank is 1,
\* and the largest p-value if no rank's ratio exceeds fdrThreshold.
C21_CutoffScan ==
    (Called("pvalueAtFdrThreshold") /\ Len(probe.pvals) > 0) =>
        LET fail == FailingRanks(probe.pvals, probe.fdrThreshold)
        IN  probe.out =
                IF fail = {} THEN SetMax(PvalSet(probe.pvals))
                ELSE IF SetMin(fail) = 1 THEN SetMin(PvalSet(probe.pvals))
                ELSE Ranked(probe.pvals, SetMin(fail) - 1)

\* the first failing rank is 2 or more and its p-value is larger than the
\* one before it, which is returned
C21_Witness ==
    /\ Called("pvalueAtFdrThreshold")
    /\ Len(probe.pvals) >= 3
    /\ FailingRanks(probe.pvals, probe.fdrThreshold) # {}
    /\ SetMin(FailingRanks(probe.pvals, probe.fdrThreshold)) >= 2
    /\ probe.out < Ranked(probe.pvals, SetMin(FailingRanks(probe.pvals, probe.fdrThreshold)))
    /\ probe.out > SetMin(PvalSet(probe.pvals))

\* C22: in every state, each point's stored _category is getCategory of the
\* point under the current fcThreshold and fdrThreshold, and the stored
\* pvalAtFdr is pvalueAtFdrThreshold of the current dataset under the current
\* fdrThreshold.
C22_DerivedCurrent ==
    /\ \A i \in 1..Len(data) :
           data[i]._category = getCategory(data[i], fcThreshold, fdrThreshold)
    /\ pvalAtFdr = pvalueAtFdrThreshold(data, fdrThreshold)

\* the FDR threshold was changed, and both the cutoff and some point's
\* category are no longer what they were under the default threshold
C22_Witness ==
    /\ last.op = "updateFdr"
    /\ fdrThreshold # DEFAULT_FDR_THRESHOLD
    /\ pvalAtFdr # pvalueAtFdrThreshold(data, DEFAULT_FDR_THRESHOLD)
    /\ \E i \in 1..Len(data) :
           data[i]._category # getCategory(data[i], fcThreshold, DEFAULT_FDR_THRESHOLD)

\* C23: for every dataset and every fdrThreshold, a point's fdr is at most
\* fdrThreshold exactly when its p-value is at most the p-value
\* pvalueAtFdrThreshold returns.
C23_CutoffAgreesWithFdr ==
    Called("pvalueAtFdrThreshold") =>
        \A i \in 1..Len(probe.pvals) :
            probe.fdr[i] <= probe.fdrThreshold * FdrDen <=> probe.pvals[i] <= probe.out

\* C24: in every state the ids in pinned and in selected, and
\* searchHighlightId when it is not null, are ids of points of the current
\* dataset; the ids of the dataset are pairwise distinct; and
\* searchHighlightId is not null only while zoomDomain is not null.
C24_IdsInDataset ==
    /\ pinned \subseteq Ids(data)
    /\ selected \subseteq Ids(data)
    /\ searchHighlightId # null => searchHighlightId \in Ids(data)
    /\ \A i, j \in 1..Len(data) : data[i].id = data[j].id => i = j
    /\ searchHighlightId # null => zoomDomain # null

\* a point is pinned, a box selection is in place and a search has matched
C24_Witness ==
    /\ pinned # {}
    /\ selected # {}
    /\ searchHighlightId # null
    /\ zoomDomain # null

==============================================================================
